---- MODULE Spec2Model ----
(***************************************************************************)
(* State-machine model of the WhatsApp/e-mail bridge:                      *)
(*   - whatsappService.js : activeSessions, initializeWhatsApp, the        *)
(*     connection.update / creds.update handlers, the recovery timers,     *)
(*     getQRCode, getSessionStatus, sendWhatsAppMessage                    *)
(*   - routes/whatsapp.js : GET /qr, POST /send, DELETE /disconnect        *)
(*   - rateLimiter.js     : RateLimiter.checkLimit                         *)
(*   - routes/email.js    : validateEmail, POST /send, POST /test          *)
(*   - emailService.js    : sendEmail                                      *)
(* Node runs one callback at a time, so every action below is one          *)
(* synchronous stretch of code: from the start of a handler to its first   *)
(* await, or from the resumption after an await to the next one.           *)
(***************************************************************************)
EXTENDS Integers, Sequences, FiniteSets, Bags, TLC

VARIABLES
    now,             \* Date.now(), in milliseconds
    recs,            \* every sessionData object ever created, in creation order
    activeSessions,  \* the Map: session id -> index into recs, NULL when absent
    credsStore,      \* auth_sessions/<id> on disk: "none" | "dir" | "creds"
    tasks,           \* async invocations suspended at an await (a bag)
    qrSeq,           \* number of QR strings the transport has issued so far
    requests,        \* whatsappLimiter.requests: identifier -> timestamps
    allowedLog,      \* per identifier, the timestamps of every allowed check
    emailRequests,   \* emailLimiter.requests: recipient -> timestamps
    mailCalls,       \* number of transporter.sendMail calls made so far
    lastMail,        \* the mailOptions of the latest transporter.sendMail call
    emailReply,      \* HTTP status of the last answered email request, 0 if none
    disconnectAnswered  \* history: per session id, a disconnect request has
                     \* answered and no connect call has started a procedure since

vars == <<now, recs, activeSessions, credsStore, tasks, qrSeq, requests, allowedLog,
          emailRequests, mailCalls, lastMail, emailReply, disconnectAnswered>>

\* the state of the email API
mailVars == <<emailRequests, mailCalls, lastMail, emailReply>>

-----------------------------------------------------------------------------
(* Bounds of the model *)

MaxRecords == 2      \* sessionData objects created in one run
MaxTasks == 2        \* async invocations suspended at the same time
MaxSaving == 1       \* creds.update handlers of one record awaiting saveCreds
MaxQr == 2           \* QR strings issued in one run
MaxTicks == 2        \* clock steps of TickMs in the session model
TickMs == 180000     \* clock granularity of the session model
MaxLimTicks == 6     \* clock steps of LimTickMs in the limiter model
LimTickMs == 500     \* clock granularity of the limiter model
MaxMail == 2         \* transporter.sendMail calls in one run
MaxMailTicks == 3    \* clock steps of MailTickMs in the email model
MailTickMs == 1000   \* clock granularity of the email model
maxRequests == 2     \* constructor argument of the modelled RateLimiter
timeWindowMs == 2000 \* constructor argument of the modelled RateLimiter

(* Program constants *)

NULL == 0
QrExpiryMs == 180000
AfterScanDelayMs == 2000
ExpiredQrDelayMs == 2000
ReconnectDelayMs == 3000
LoggedOut == 401
RestartRequired == 515
StreamErrored == 515
PreconditionRequired == 428
Forbidden == 403
NotFound == 404
TimedOut == 408
BadSession == 500
NoStatusCode == 0

SessionIds == {"s1"}
Identifiers == {"s1", "s2"}
StatusCodes == {LoggedOut, StreamErrored, PreconditionRequired,
                Forbidden, NotFound, TimedOut, BadSession, NoStatusCode}
Epoch == TickMs

-----------------------------------------------------------------------------
(* Helpers *)

Recs == DOMAIN recs

\* activeSessions.get(sessionId); undefined for an id that was never stored
Registered(sessionId) ==
    IF sessionId \in DOMAIN activeSessions THEN activeSessions[sessionId] ELSE NULL

\* const sessionData = { socket, isConnected: false, qrCode: null, ... }
NewSessionData(sessionId, withCreds) ==
    [ sid            |-> sessionId,
      socket         |-> "live",
      withCreds      |-> withCreds,
      isConnected    |-> FALSE,
      qrCode         |-> NULL,
      qrGeneratedAt  |-> NULL,
      qrScanned      |-> FALSE,
      phoneNumber    |-> NULL,
      status         |-> "connecting",
      reconnectTimer |-> NULL,
      saving         |-> 0 ]

\* existingSession.socket.end(): the handle is closed from this side
SocketEnd(rec) ==
    IF rec.socket = "live" THEN [rec EXCEPT !.socket = "ended"] ELSE rec

\* const isExpired = qrAge > 180000   (initializeWhatsApp)
IsExpiredInit(qrAge) == qrAge > QrExpiryMs

\* const isExpired = qrAge > 180000   (connection.update close handler)
IsExpiredClose(qrAge) == qrAge > QrExpiryMs

\* variant: expired from the 180th second on
IsExpiredRoute_AtTtl(qrAge) == qrAge >= QrExpiryMs

\* const isExpired = qrAge > 180000   (GET /qr/:sessionId)
IsExpiredRoute(qrAge) == qrAge > QrExpiryMs

\* Date.prototype.toISOString and new Date(iso).getTime(), millisecond precision
ToISOString(ms) == <<ms \div 1000, ms % 1000>>
ParseISO(iso) == iso[1] * 1000 + iso[2]

-----------------------------------------------------------------------------
(* initializeWhatsApp *)

Task(kind, sessionId, pc, by, hasCreds) ==
    [kind |-> kind, sid |-> sessionId, pc |-> pc, by |-> by, hasCreds |-> hasCreds]

InitTasks == {t \in BagToSet(tasks) : t.kind = "init"}

NumInitTasks == BagCardinality(tasks) -
                BagCardinality([t \in {u \in BagToSet(tasks) : u.kind # "init"} |-> tasks[t]])

\* variant: only a connected record is returned as it is
ReusesExisting_OnlyConnected(sessionId, base) ==
    LET existing == Registered(sessionId) IN
    /\ existing # NULL
    /\ base[existing].isConnected

\* the existing record is returned as it is (lines 65-68 and 72-80)
ReusesExisting(sessionId, base) ==
    LET existing == Registered(sessionId) IN
    /\ existing # NULL
    /\ \/ base[existing].isConnected
       \/ /\ base[existing].qrCode # NULL
          /\ base[existing].qrGeneratedAt # NULL
          /\ ~base[existing].qrScanned
          /\ ~IsExpiredInit(now - base[existing].qrGeneratedAt)

\* lines 60-134: from the call to the first await. `base` is recs as the
\* caller left it, `by` the record whose timer made the call (NULL: a client).
InitializeWhatsApp(sessionId, by, base) ==
    LET existing == Registered(sessionId) IN
    IF ReusesExisting(sessionId, base)
    THEN /\ recs' = base
         /\ UNCHANGED <<activeSessions, credsStore, tasks>>
    ELSE /\ BagCardinality(tasks) < MaxTasks
         /\ Len(recs) + NumInitTasks < MaxRecords
         /\ recs' = IF existing # NULL
                    THEN [base EXCEPT ![existing] = SocketEnd(@)]
                    ELSE base
         /\ activeSessions' = [activeSessions EXCEPT ![sessionId] = NULL]
         /\ credsStore' = [credsStore EXCEPT
                ![sessionId] = IF @ = "creds" THEN "creds" ELSE "dir"]
         /\ tasks' = tasks (+) SetToBag({Task("init", sessionId, "auth", by, FALSE)})

\* POST /connect/:sessionId
ConnectCall(sessionId) ==
    /\ InitializeWhatsApp(sessionId, NULL, recs)
    /\ UNCHANGED <<now, qrSeq, requests, allowedLog>>
    /\ UNCHANGED mailVars
    /\ disconnectAnswered' = IF ReusesExisting(sessionId, recs)
                           THEN disconnectAnswered
                           ELSE [disconnectAnswered EXCEPT ![sessionId] = FALSE]

\* await useMultiFileAuthState(sessionPath) resolves: the stored state is read
AuthStateLoaded(t) ==
    /\ BagIn(t, tasks) /\ t.kind = "init" /\ t.pc = "auth"
    /\ tasks' = (tasks (-) SetToBag({t})) (+)
                SetToBag({Task("init", t.sid, "net", t.by, credsStore[t.sid] = "creds")})
    /\ credsStore' = [credsStore EXCEPT ![t.sid] = IF @ = "none" THEN "dir" ELSE @]
    /\ UNCHANGED <<now, recs, activeSessions, qrSeq, requests, allowedLog>>
    /\ UNCHANGED mailVars
    /\ UNCHANGED disconnectAnswered

\* lines 153-175 and 207-213: the network check (or makeWASocket) throws; a
\* timer's call is caught by the timer callback, which marks its record failed
ConnectFailed(t) ==
    /\ BagIn(t, tasks) /\ t.kind = "init" /\ t.pc = "net"
    /\ tasks' = tasks (-) SetToBag({t})
    /\ recs' = IF t.by # NULL THEN [recs EXCEPT ![t.by].status = "failed"] ELSE recs
    /\ UNCHANGED <<now, activeSessions, credsStore, qrSeq, requests, allowedLog>>
    /\ UNCHANGED mailVars
    /\ UNCHANGED disconnectAnswered

\* lines 177-459: socket created, handlers registered, record stored
SocketCreated(t) ==
    /\ BagIn(t, tasks) /\ t.kind = "init" /\ t.pc = "net"
    /\ tasks' = tasks (-) SetToBag({t})
    /\ recs' = Append(recs, NewSessionData(t.sid, t.hasCreds))
    /\ activeSessions' = [activeSessions EXCEPT ![t.sid] = Len(recs) + 1]
    /\ UNCHANGED <<now, credsStore, qrSeq, requests, allowedLog>>
    /\ UNCHANGED mailVars
    /\ UNCHANGED disconnectAnswered

-----------------------------------------------------------------------------
(* socket.ev.on('connection.update', ...) *)

\* sessionData.reconnectTimer = setTimeout(..., delay), unless one is pending
ScheduleReconnect(rec, delay) ==
    IF rec.reconnectTimer = NULL THEN [rec EXCEPT !.reconnectTimer = delay] ELSE rec

\* variant: a QR string puts the record back to connecting
OnQr_BackToConnecting(rec, qr) ==
    [rec EXCEPT !.qrCode = qr, !.qrGeneratedAt = now, !.status = "connecting"]

\* if (qr) { ... }   lines 235-254
OnQr(rec, qr) ==
    [rec EXCEPT !.qrCode = qr, !.qrGeneratedAt = now, !.status = "qr_pending"]

\* variant: the open branch also resets the scanned flag
OnOpen_ResetsScanned(rec) ==
    [rec EXCEPT !.reconnectTimer = NULL,
                !.isConnected = TRUE,
                !.status = "connected",
                !.qrCode = NULL,
                !.qrScanned = FALSE,
                !.phoneNumber = 1]

\* if (connection === 'open') { ... }   lines 257-271
OnOpen(rec) ==
    [rec EXCEPT !.reconnectTimer = NULL,
                !.isConnected = TRUE,
                !.status = "connected",
                !.qrCode = NULL,
                !.phoneNumber = 1]

\* statusCode === 515 || statusCode === 428 || statusCode === restartRequired
IsRecoverable(statusCode) ==
    statusCode = 515 \/ statusCode = 428 \/ statusCode = RestartRequired

\* variant: reconnects after every recoverable close, whatever the QR state
OnRecoverableClose_AlwaysReconnect(rec) ==
    ScheduleReconnect([rec EXCEPT !.status = "reconnecting"], ReconnectDelayMs)

\* variant: an unscanned QR keeps the record waiting, expired or not
OnRecoverableClose_KeepsWaiting(rec) ==
    IF rec.qrScanned
    THEN ScheduleReconnect([rec EXCEPT !.status = "reconnecting",
                                       !.qrCode = NULL,
                                       !.qrScanned = FALSE], AfterScanDelayMs)
    ELSE IF rec.qrCode # NULL
    THEN [rec EXCEPT !.status = "qr_pending"]
    ELSE ScheduleReconnect([rec EXCEPT !.status = "reconnecting"], ReconnectDelayMs)

\* lines 347-414: the recoverable branch of the close handler
OnRecoverableClose(rec) ==
    IF rec.qrScanned
    THEN ScheduleReconnect([rec EXCEPT !.status = "reconnecting",
                                       !.qrCode = NULL,
                                       !.qrScanned = FALSE], AfterScanDelayMs)
    ELSE IF rec.qrCode # NULL
    THEN IF rec.qrGeneratedAt # NULL /\ IsExpiredClose(now - rec.qrGeneratedAt)
         THEN ScheduleReconnect([rec EXCEPT !.status = "reconnecting"], ExpiredQrDelayMs)
         ELSE [rec EXCEPT !.status = "qr_pending"]
    ELSE ScheduleReconnect([rec EXCEPT !.status = "reconnecting"], ReconnectDelayMs)

\* variant: the close handler leaves the isConnected flag as it was
OnClose_KeepsFlag(rec, statusCode) ==
    LET closed == [rec EXCEPT !.socket = "closed"]
    IN  IF statusCode = LoggedOut
        THEN [closed EXCEPT !.status = "disconnected", !.reconnectTimer = NULL]
        ELSE IF IsRecoverable(statusCode)
        THEN OnRecoverableClose(closed)
        ELSE [closed EXCEPT !.status = "failed"]

\* variant: every close that is not a logout schedules a reconnect
OnClose_RetriesAll(rec, statusCode) ==
    LET closed == [rec EXCEPT !.socket = "closed", !.isConnected = FALSE]
    IN  IF statusCode = LoggedOut
        THEN [closed EXCEPT !.status = "disconnected", !.reconnectTimer = NULL]
        ELSE IF IsRecoverable(statusCode)
        THEN OnRecoverableClose(closed)
        ELSE ScheduleReconnect([closed EXCEPT !.status = "failed"], ReconnectDelayMs)

\* lines 309-422 on the record itself
OnClose(rec, statusCode) ==
    LET closed == [rec EXCEPT !.socket = "closed", !.isConnected = FALSE]
    IN  IF statusCode = LoggedOut
        THEN [closed EXCEPT !.status = "disconnected", !.reconnectTimer = NULL]
        ELSE IF IsRecoverable(statusCode)
        THEN OnRecoverableClose(closed)
        ELSE [closed EXCEPT !.status = "failed"]

\* The transport issues a QR string on a handle that was created without
\* stored credentials and has not opened.
QrEvent(r) ==
    /\ recs[r].socket = "live" /\ ~recs[r].withCreds /\ ~recs[r].isConnected
    /\ qrSeq < MaxQr
    /\ qrSeq' = qrSeq + 1
    /\ recs' = [recs EXCEPT ![r] = OnQr(@, qrSeq + 1)]
    /\ UNCHANGED <<now, activeSessions, credsStore, tasks, requests, allowedLog>>
    /\ UNCHANGED mailVars
    /\ UNCHANGED disconnectAnswered

OpenEvent(r) ==
    /\ recs[r].socket = "live" /\ ~recs[r].isConnected
    /\ recs' = [recs EXCEPT ![r] = OnOpen(@)]
    /\ UNCHANGED <<now, activeSessions, credsStore, tasks, qrSeq, requests, allowedLog>>
    /\ UNCHANGED mailVars
    /\ UNCHANGED disconnectAnswered

\* variant: the logged-out branch leaves the credential directory in place
CloseEvent_KeepsCredentials(r, statusCode) ==
    /\ recs[r].socket = "live"
    /\ recs' = [recs EXCEPT ![r] = OnClose(@, statusCode)]
    /\ activeSessions' = IF statusCode = LoggedOut
                         THEN [activeSessions EXCEPT ![recs[r].sid] = NULL]
                         ELSE activeSessions
    /\ UNCHANGED <<now, credsStore, tasks, qrSeq, requests, allowedLog>>
    /\ UNCHANGED mailVars
    /\ UNCHANGED disconnectAnswered

\* variant: every close that is not recoverable removes the credential directory
CloseEvent_ClearsOnFailure(r, statusCode) ==
    /\ recs[r].socket = "live"
    /\ recs' = [recs EXCEPT ![r] = OnClose(@, statusCode)]
    /\ activeSessions' = IF statusCode = LoggedOut
                         THEN [activeSessions EXCEPT ![recs[r].sid] = NULL]
                         ELSE activeSessions
    /\ credsStore' = IF ~IsRecoverable(statusCode)
                     THEN [credsStore EXCEPT ![recs[r].sid] = "none"]
                     ELSE credsStore
    /\ UNCHANGED <<now, tasks, qrSeq, requests, allowedLog>>
    /\ UNCHANGED mailVars
    /\ UNCHANGED disconnectAnswered

\* The close handler; on the logged-out code it also removes the registry
\* entry of the session id and the credential directory (lines 320-325).
CloseEvent(r, statusCode) ==
    /\ recs[r].socket = "live"
    /\ recs' = [recs EXCEPT ![r] = OnClose(@, statusCode)]
    /\ activeSessions' = IF statusCode = LoggedOut
                         THEN [activeSessions EXCEPT ![recs[r].sid] = NULL]
                         ELSE activeSessions
    /\ credsStore' = IF statusCode = LoggedOut
                     THEN [credsStore EXCEPT ![recs[r].sid] = "none"]
                     ELSE credsStore
    /\ UNCHANGED <<now, tasks, qrSeq, requests, allowedLog>>
    /\ UNCHANGED mailVars
    /\ UNCHANGED disconnectAnswered

\* variant: the callback calls initializeWhatsApp without clearing the timer field
TimerFired_KeepsTimer(r) ==
    /\ recs[r].reconnectTimer # NULL
    /\ InitializeWhatsApp(recs[r].sid, r, recs)
    /\ UNCHANGED <<now, qrSeq, requests, allowedLog>>
    /\ UNCHANGED mailVars
    /\ UNCHANGED disconnectAnswered

\* The recovery timer of record r fires: lines 358-365, 383-390, 405-412
TimerFired(r) ==
    /\ recs[r].reconnectTimer # NULL
    /\ InitializeWhatsApp(recs[r].sid, r, [recs EXCEPT ![r].reconnectTimer = NULL])
    /\ UNCHANGED <<now, qrSeq, requests, allowedLog>>
    /\ UNCHANGED mailVars
    /\ UNCHANGED disconnectAnswered

-----------------------------------------------------------------------------
(* socket.ev.on('creds.update', ...) *)

\* The transport reports changed credentials: after a scan of the QR string
\* shown on this handle, or on a handle that is logged in. The handler starts
\* and suspends at `await saveCreds()`.
CredsUpdateEvent(r) ==
    /\ recs[r].socket = "live"
    /\ recs[r].qrCode # NULL \/ recs[r].withCreds \/ recs[r].isConnected
    /\ recs[r].saving < MaxSaving
    /\ recs' = [recs EXCEPT ![r].saving = @ + 1]
    /\ UNCHANGED <<now, activeSessions, credsStore, tasks, qrSeq, requests, allowedLog>>
    /\ UNCHANGED mailVars
    /\ UNCHANGED disconnectAnswered

\* variant: the handler marks the record whether or not it holds a QR string
OnCredsSaved_AlwaysMarks(rec) ==
    [rec EXCEPT !.qrScanned = TRUE, !.status = "authenticating"]

\* lines 439-444, after the await
OnCredsSaved(rec) ==
    IF rec.qrCode # NULL
    THEN [rec EXCEPT !.qrScanned = TRUE, !.status = "authenticating"]
    ELSE rec

\* saveCreds() writes creds.json into the session directory and the handler
\* resumes; without the directory the write is rejected and the handler ends.
CredsSaved(r) ==
    /\ recs[r].saving > 0
    /\ IF credsStore[recs[r].sid] = "none"
       THEN /\ recs' = [recs EXCEPT ![r].saving = @ - 1]
            /\ UNCHANGED credsStore
       ELSE /\ recs' = [recs EXCEPT ![r] = OnCredsSaved([@ EXCEPT !.saving = @ - 1])]
            /\ credsStore' = [credsStore EXCEPT ![recs[r].sid] = "creds"]
    /\ UNCHANGED <<now, activeSessions, tasks, qrSeq, requests, allowedLog>>
    /\ UNCHANGED mailVars
    /\ UNCHANGED disconnectAnswered

-----------------------------------------------------------------------------
(* DELETE /disconnect/:sessionId *)

\* lines 178-213 up to `await session.socket.logout()`, or to the end when
\* the session is absent or not connected
DisconnectCall(sessionId) ==
    LET session == Registered(sessionId) IN
    /\ IF session = NULL
       THEN UNCHANGED <<recs, activeSessions, tasks>>
       ELSE IF recs[session].isConnected
       THEN /\ BagCardinality(tasks) < MaxTasks
            /\ recs' = [recs EXCEPT ![session].reconnectTimer = NULL]
            /\ tasks' = tasks (+) SetToBag({Task("logout", sessionId, "logout", session, FALSE)})
            /\ UNCHANGED activeSessions
       ELSE /\ recs' = [recs EXCEPT ![session] = SocketEnd([@ EXCEPT !.reconnectTimer = NULL])]
            /\ activeSessions' = [activeSessions EXCEPT ![sessionId] = NULL]
            /\ UNCHANGED tasks
    /\ UNCHANGED <<now, credsStore, qrSeq, requests, allowedLog>>
    /\ UNCHANGED mailVars
    /\ disconnectAnswered' = IF session # NULL /\ recs[session].isConnected
                           THEN disconnectAnswered
                           ELSE [disconnectAnswered EXCEPT ![sessionId] = TRUE]

\* `await session.socket.logout()` settles, then activeSessions.delete(sessionId)
\* and the 200 answer. On a handle that is still open logout() ends it with
\* the logged-out reason, so the close handler's logged-out branch has run
\* (lines 311-325) when the route resumes; on a handle that closed during the
\* await it rejects, and the route only logs the error (lines 207-209).
DisconnectDone(t) ==
    /\ BagIn(t, tasks) /\ t.kind = "logout"
    /\ tasks' = tasks (-) SetToBag({t})
    /\ IF recs[t.by].socket = "live"
       THEN /\ recs' = [recs EXCEPT ![t.by] = OnClose(@, LoggedOut)]
            /\ credsStore' = [credsStore EXCEPT ![t.sid] = "none"]
       ELSE UNCHANGED <<recs, credsStore>>
    /\ activeSessions' = [activeSessions EXCEPT ![t.sid] = NULL]
    /\ UNCHANGED <<now, qrSeq, requests, allowedLog>>
    /\ UNCHANGED mailVars
    /\ disconnectAnswered' = [disconnectAnswered EXCEPT ![t.sid] = TRUE]

-----------------------------------------------------------------------------
(* Queries *)

\* getQRCode(sessionId), lines 503-549
GetQRCode(sessionId) ==
    LET session == recs[Registered(sessionId)] IN
    [ qrCode        |-> session.qrCode,
      status        |-> session.status,
      isConnected   |-> session.isConnected,
      phoneNumber   |-> session.phoneNumber,
      qrGeneratedAt |-> IF session.qrGeneratedAt # NULL
                        THEN ToISOString(session.qrGeneratedAt)
                        ELSE <<>> ]

\* GET /qr/:sessionId, lines 45-105
QrEndpoint(sessionId) ==
    IF Registered(sessionId) = NULL
    THEN [http |-> 404, qrCode |-> NULL, status |-> "not_found"]
    ELSE LET qrData == GetQRCode(sessionId) IN
         IF /\ qrData.qrCode # NULL
            /\ qrData.qrGeneratedAt # <<>>
            /\ IsExpiredRoute(now - ParseISO(qrData.qrGeneratedAt))
         THEN [http |-> 200, qrCode |-> NULL, status |-> "qr_expired"]
         ELSE [http |-> 200, qrCode |-> qrData.qrCode, status |-> qrData.status]

\* getSessionStatus(sessionId), lines 554-571
GetSessionStatus(sessionId) ==
    IF Registered(sessionId) = NULL
    THEN [exists |-> FALSE, status |-> "not_initialized",
          isConnected |-> FALSE, hasQRCode |-> FALSE]
    ELSE LET session == recs[Registered(sessionId)] IN
         [exists |-> TRUE, status |-> session.status,
          isConnected |-> session.isConnected, hasQRCode |-> session.qrCode # NULL]

-----------------------------------------------------------------------------
(* RateLimiter *)

Min(seq) == CHOOSE x \in {seq[i] : i \in DOMAIN seq} :
                \A y \in {seq[i] : i \in DOMAIN seq} : x <= y

\* Math.ceil(a / b) for a >= 0, b > 0
CeilDiv(a, b) == (a + b - 1) \div b

\* variant: a timestamp exactly one window old still counts
InWindow_Inclusive(t, timestamp) == t - timestamp <= timeWindowMs

\* timestamp => now - timestamp < this.timeWindowMs
InWindow(t, timestamp) == t - timestamp < timeWindowMs

\* userRequests.filter(...)
ValidRequests(userRequests, t) == SelectSeq(userRequests, LAMBDA ts : InWindow(t, ts))

\* validRequests.length >= this.maxRequests
LimitReached(validRequests) == Len(validRequests) >= maxRequests

\* variant: the wait is measured from the newest request
WaitTime_FromNewest(validRequests, t) ==
    timeWindowMs - (t - validRequests[Len(validRequests)])

\* const waitTime = this.timeWindowMs - (now - oldestRequest)
WaitTime(validRequests, t) == timeWindowMs - (t - Min(validRequests))

\* `Try again in ${Math.ceil(waitTime / 1000)}s`
RetryAfterS(waitTime) == CeilDiv(waitTime, 1000)

\* variant: the timestamp of a rejected call is stored as well
CheckLimit_RecordsRejected(userRequests, t) ==
    LET validRequests == ValidRequests(userRequests, t) IN
    IF LimitReached(validRequests)
    THEN [allowed |-> FALSE, requests |-> Append(validRequests, t),
          waitTime |-> WaitTime(validRequests, t),
          retryAfterS |-> RetryAfterS(WaitTime(validRequests, t))]
    ELSE [allowed |-> TRUE, requests |-> Append(validRequests, t),
          waitTime |-> 0, retryAfterS |-> 0]

\* checkLimit(identifier) at time t on the stored timestamps of the identifier:
\* the outcome and the timestamps stored afterwards
CheckLimit(userRequests, t) ==
    LET validRequests == ValidRequests(userRequests, t) IN
    IF LimitReached(validRequests)
    THEN [allowed |-> FALSE, requests |-> userRequests,
          waitTime |-> WaitTime(validRequests, t),
          retryAfterS |-> RetryAfterS(WaitTime(validRequests, t))]
    ELSE [allowed |-> TRUE, requests |-> Append(validRequests, t),
          waitTime |-> 0, retryAfterS |-> 0]

\* variant: one list of timestamps shared by every identifier
LimiterCheck_SharedList(identifier) ==
    LET res == CheckLimit(requests[identifier], now) IN
    /\ requests' = [k \in Identifiers |-> res.requests]
    /\ allowedLog' = IF res.allowed
                     THEN [allowedLog EXCEPT ![identifier] = Append(@, now)]
                     ELSE allowedLog
    /\ UNCHANGED <<now, recs, activeSessions, credsStore, tasks, qrSeq>>
    /\ UNCHANGED mailVars
    /\ UNCHANGED disconnectAnswered

\* one call of whatsappLimiter.checkLimit(identifier)
LimiterCheck(identifier) ==
    LET res == CheckLimit(requests[identifier], now) IN
    /\ requests' = [requests EXCEPT ![identifier] = res.requests]
    /\ allowedLog' = IF res.allowed
                     THEN [allowedLog EXCEPT ![identifier] = Append(@, now)]
                     ELSE allowedLog
    /\ UNCHANGED <<now, recs, activeSessions, credsStore, tasks, qrSeq>>
    /\ UNCHANGED mailVars
    /\ UNCHANGED disconnectAnswered



\* time passes between limiter checks
LimTick ==
    /\ now < Epoch + MaxLimTicks * LimTickMs
    /\ now' = now + LimTickMs
    /\ UNCHANGED <<recs, activeSessions, credsStore, tasks, qrSeq, requests, allowedLog>>
    /\ UNCHANGED mailVars
    /\ UNCHANGED disconnectAnswered

-----------------------------------------------------------------------------
(* POST /send/:sessionId and sendWhatsAppMessage *)

\* what a valid send request is answered with, lines 144-172 and 469-498
SendOutcome(sessionId) ==
    IF ~CheckLimit(requests[sessionId], now).allowed THEN "rate_limited"
    ELSE IF Registered(sessionId) = NULL THEN "session_not_found"
    ELSE IF ~recs[Registered(sessionId)].isConnected THEN "not_connected"
    ELSE "forwarded"

\* the request: the limiter is checked first (line 151), the session after
SendRoute(sessionId) == LimiterCheck(sessionId)

-----------------------------------------------------------------------------
(* The email API: validateEmail, POST /send, POST /test, sendEmail *)

\* strings of the request body, as sequences of characters
Space == " "
NoString == <<>>
Blank == <<Space>>
AddrA == <<"a", "@", "x", ".", "o">>
AddrB == <<"b", "@", "x", ".", "o">>
AddrNoDot == <<"a", "@", "x">>
AddrUser == <<"u", "@", "x", ".", "o">>
AddrEnv == <<"e", "@", "x", ".", "o">>
ToValues == {NoString, Blank, AddrNoDot, AddrA, AddrB}

\* String.prototype.trim() === ''
RECURSIVE Trim(_)
Trim(s) ==
    IF s = <<>> THEN s
    ELSE IF Head(s) = Space THEN Trim(Tail(s))
    ELSE IF s[Len(s)] = Space THEN Trim(SubSeq(s, 1, Len(s) - 1))
    ELSE s

\* !field || field.trim() === ''
Missing(s) == s = NoString \/ Trim(s) = <<>>

\* [^\s@]+ matches s[i..j]
Plain(s, i, j) == i <= j /\ \A k \in i..j : s[k] \notin {Space, "@"}

\* isValidEmail: /^[^\s@]+@[^\s@]+\.[^\s@]+$/.test(email)
IsValidEmail(s) ==
    \E i \in 1..Len(s), j \in 1..Len(s) :
        /\ s[i] = "@" /\ s[j] = "." /\ i < j
        /\ Plain(s, 1, i - 1) /\ Plain(s, i + 1, j - 1) /\ Plain(s, j + 1, Len(s))

\* validateEmail: the status it answers with, 0 when it calls next()
ValidateEmail(body) ==
    IF Missing(body.to) THEN 400
    ELSE IF Missing(body.subject) THEN 400
    ELSE IF ~IsValidEmail(body.to) THEN 400
    ELSE IF Missing(body.text) /\ Missing(body.html) THEN 400
    ELSE 0

\* account configurations: user, and whether pass, host and port are given
NoAccount == [user |-> NoString, rest |-> FALSE]
DefaultAccount == [user |-> AddrEnv, rest |-> TRUE]
AccountConfigs == {NoAccount, [user |-> AddrUser, rest |-> TRUE],
                   [user |-> AddrUser, rest |-> FALSE]}

\* accountConfig || getDefaultAccount()
EmailAccount(accountConfig) ==
    IF accountConfig = NoAccount THEN DefaultAccount ELSE accountConfig

\* request bodies of POST /send: complete bodies for two recipients, with
\* and without cc, with and without bcc, with each account configuration,
\* and one body for each way validation fails
SomeBody == [to |-> AddrA, subject |-> <<"s">>, text |-> <<"t">>, html |-> NoString,
             cc |-> NoString, bcc |-> NoString, accountConfig |-> NoAccount]
CompleteBodies ==
    LET variants == {SomeBody, [SomeBody EXCEPT !.cc = AddrB],
                     [SomeBody EXCEPT !.bcc = AddrA]}
                      \cup {[SomeBody EXCEPT !.accountConfig = a] : a \in AccountConfigs}
    IN  {[b EXCEPT !.to = t] : b \in variants, t \in {AddrA, AddrB}}
EmailBodies ==
    CompleteBodies
      \cup {[SomeBody EXCEPT !.to = t] : t \in ToValues}
      \cup {[SomeBody EXCEPT !.subject = s] : s \in {NoString, Blank}}
      \cup {[SomeBody EXCEPT !.text = x, !.html = h] :
                x \in {NoString, Blank}, h \in {NoString, <<"h">>}}

NoMail == [route |-> "none", from |-> NoString, to |-> NoString, subject |-> NoString,
           text |-> NoString, html |-> NoString, cc |-> NoString, bcc |-> NoString]

\* sendEmail(accountConfig, options): whether transporter.sendMail is called,
\* with which mailOptions, and the result; `delivered` is whether sendMail
\* resolves
SendEmail(route, account, options, delivered) ==
    IF options.to = NoString \/ options.subject = NoString
         \/ account.user = NoString \/ ~account.rest
    THEN [called |-> FALSE, success |-> FALSE, mail |-> NoMail]
    ELSE [called |-> TRUE, success |-> delivered,
          mail |-> [route |-> route, from |-> account.user, to |-> options.to,
                    subject |-> options.subject, text |-> options.text,
                    html |-> IF options.html # NoString THEN options.html
                             ELSE options.text,
                    cc |-> options.cc, bcc |-> options.bcc]]

\* the effect of one sendEmail call on the transport and on the answer
Answer(result) ==
    /\ result.called => mailCalls < MaxMail
    /\ mailCalls' = IF result.called THEN mailCalls + 1 ELSE mailCalls
    /\ lastMail' = IF result.called THEN result.mail ELSE lastMail
    /\ emailReply' = IF result.success THEN 200 ELSE 500

\* variant: the limiter is consulted before the body is validated
EmailSendRoute_LimitFirst(body, delivered) ==
    LET res == CheckLimit(emailRequests[body.to], now) IN
    /\ emailRequests' = [emailRequests EXCEPT ![body.to] = res.requests]
    /\ IF ~res.allowed
       THEN emailReply' = 429 /\ UNCHANGED <<mailCalls, lastMail>>
       ELSE IF ValidateEmail(body) # 0
       THEN emailReply' = 400 /\ UNCHANGED <<mailCalls, lastMail>>
       ELSE Answer(SendEmail("send", EmailAccount(body.accountConfig), body, delivered))
    /\ UNCHANGED <<now, recs, activeSessions, credsStore, tasks, qrSeq, requests, allowedLog>>
    /\ UNCHANGED disconnectAnswered

\* POST /send: validateEmail, then emailLimiter.checkLimit(to), then sendEmail
EmailSendRoute(body, delivered) ==
    /\ IF ValidateEmail(body) # 0
       THEN emailReply' = 400 /\ UNCHANGED <<emailRequests, mailCalls, lastMail>>
       ELSE LET res == CheckLimit(emailRequests[body.to], now) IN
            /\ emailRequests' = [emailRequests EXCEPT ![body.to] = res.requests]
            /\ IF ~res.allowed
               THEN emailReply' = 429 /\ UNCHANGED <<mailCalls, lastMail>>
               ELSE Answer(SendEmail("send", EmailAccount(body.accountConfig),
                                     body, delivered))
    /\ UNCHANGED <<now, recs, activeSessions, credsStore, tasks, qrSeq, requests, allowedLog>>
    /\ UNCHANGED disconnectAnswered

\* time passes between email requests
EmailTick ==
    /\ now < Epoch + MaxMailTicks * MailTickMs
    /\ now' = now + MailTickMs
    /\ UNCHANGED <<recs, activeSessions, credsStore, tasks, qrSeq, requests, allowedLog>>
    /\ UNCHANGED mailVars
    /\ UNCHANGED disconnectAnswered

\* POST /test: a fixed message to the account's own address, no validation
\* and no limiter
EmailTestRoute(accountConfig, delivered) ==
    LET emailAccount == EmailAccount(accountConfig)
        testEmailOptions == [to |-> emailAccount.user, subject |-> <<"T">>,
                             text |-> <<"t">>, html |-> NoString,
                             cc |-> NoString, bcc |-> NoString]
    IN
    /\ Answer(SendEmail("test", emailAccount, testEmailOptions, delivered))
    /\ UNCHANGED emailRequests
    /\ UNCHANGED <<now, recs, activeSessions, credsStore, tasks, qrSeq, requests, allowedLog>>
    /\ UNCHANGED disconnectAnswered

\* time passes
Tick ==
    /\ now < Epoch + MaxTicks * TickMs
    /\ now' = now + TickMs
    /\ UNCHANGED <<recs, activeSessions, credsStore, tasks, qrSeq, requests, allowedLog>>
    /\ UNCHANGED mailVars
    /\ UNCHANGED disconnectAnswered

-----------------------------------------------------------------------------
Init ==
    /\ now = Epoch
    /\ recs = <<>>
    /\ activeSessions = [s \in SessionIds |-> NULL]
    /\ credsStore \in [SessionIds -> {"none", "creds"}]
    /\ tasks = EmptyBag
    /\ qrSeq = 0
    /\ requests = [k \in Identifiers |-> <<>>]
    /\ allowedLog = [k \in Identifiers |-> <<>>]
    /\ emailRequests = [k \in ToValues |-> <<>>]
    /\ mailCalls = 0
    /\ lastMail = NoMail
    /\ emailReply = 0
    /\ disconnectAnswered = [s \in SessionIds |-> FALSE]

Next ==
    \/ \E s \in SessionIds : ConnectCall(s)
    \/ \E t \in BagToSet(tasks) : AuthStateLoaded(t)
    \/ \E t \in BagToSet(tasks) : ConnectFailed(t)
    \/ \E t \in BagToSet(tasks) : SocketCreated(t)
    \/ \E r \in Recs : QrEvent(r)
    \/ \E r \in Recs : OpenEvent(r)
    \/ \E r \in Recs, c \in StatusCodes : CloseEvent(r, c)
    \/ \E r \in Recs : CredsUpdateEvent(r)
    \/ \E r \in Recs : CredsSaved(r)
    \/ \E r \in Recs : TimerFired(r)
    \/ \E s \in SessionIds : DisconnectCall(s)
    \/ \E t \in BagToSet(tasks) : DisconnectDone(t)
    \/ Tick

Spec == Init /\ [][Next]_vars

\* the limiter alone: checks of any identifier at non-decreasing times
NextLimiter ==
    \/ \E k \in Identifiers : LimiterCheck(k)
    \/ LimTick

SpecLimiter == Init /\ [][NextLimiter]_vars

\* sends against sessions that connect, open and close
NextSend ==
    \/ \E s \in SessionIds : ConnectCall(s)
    \/ \E t \in BagToSet(tasks) : AuthStateLoaded(t)
    \/ \E t \in BagToSet(tasks) : SocketCreated(t)
    \/ \E r \in Recs : OpenEvent(r)
    \/ \E r \in Recs, c \in StatusCodes : CloseEvent(r, c)
    \/ \E s \in SessionIds : SendRoute(s)
    \/ LimTick

SpecSend == Init /\ [][NextSend]_vars

\* the email API alone: requests of both routes at non-decreasing times
NextEmail ==
    \/ \E body \in EmailBodies, delivered \in BOOLEAN : EmailSendRoute(body, delivered)
    \/ \E a \in AccountConfigs, delivered \in BOOLEAN : EmailTestRoute(a, delivered)
    \/ EmailTick

SpecEmail == Init /\ [][NextEmail]_vars

\* what the program does by itself after the first connect call: no further
\* client call, no failing connection attempt, and the transport closes a
\* handle only after it has shown a QR string or opened
NextAuto ==
    \/ \E s \in SessionIds : recs = <<>> /\ tasks = EmptyBag /\ ConnectCall(s)
    \/ \E t \in BagToSet(tasks) : AuthStateLoaded(t)
    \/ \E t \in BagToSet(tasks) : SocketCreated(t)
    \/ \E r \in Recs : QrEvent(r)
    \/ \E r \in Recs : OpenEvent(r)
    \/ \E r \in Recs, c \in StatusCodes :
           (recs[r].qrCode # NULL \/ recs[r].isConnected) /\ CloseEvent(r, c)
    \/ \E r \in Recs : CredsUpdateEvent(r)
    \/ \E r \in Recs : CredsSaved(r)
    \/ \E r \in Recs : TimerFired(r)
    \/ Tick

\* timers fire, suspended procedures resume, pending writes end, and a handle
\* waiting for a scan is given its QR string
FairAuto ==
    /\ WF_vars(\E r \in Recs : TimerFired(r))
    /\ WF_vars(\E t \in BagToSet(tasks) : AuthStateLoaded(t))
    /\ WF_vars(\E t \in BagToSet(tasks) : SocketCreated(t))
    /\ WF_vars(\E r \in Recs : CredsSaved(r))
    /\ WF_vars(\E r \in Recs : QrEvent(r))

SpecAuto == Init /\ [][NextAuto]_vars /\ FairAuto

-----------------------------------------------------------------------------
(* cleanup(): SIGTERM, SIGINT, uncaughtException (server, lines 80-106) *)

CleanupTasks == {t \in BagToSet(tasks) : t.kind = "cleanup"}

\* process.exit has been called
Exited == \E t \in CleanupTasks : t.pc = "exited"

\* a signal arrives: cleanup() runs up to `await session.socket.logout()` of
\* the first registered session, or, with an empty registry, through
\* server.close(...) and setTimeout(..., 10000). The model has one session
\* id, so the loop has at most one iteration.
CleanupStart ==
    /\ CleanupTasks = {}
    /\ BagCardinality(tasks) < MaxTasks
    /\ \E s \in SessionIds :
         tasks' = tasks (+) SetToBag({
                    IF Registered(s) # NULL
                    THEN Task("cleanup", s, "logout", Registered(s), FALSE)
                    ELSE Task("cleanup", s, "closing", NULL, FALSE)})
    /\ UNCHANGED <<now, recs, activeSessions, credsStore, qrSeq, requests, allowedLog>>
    /\ UNCHANGED mailVars
    /\ UNCHANGED disconnectAnswered

\* the awaited logout() settles: on a handle still open it has ended the handle
\* with the logged-out reason (close handler, lines 311-325); a rejection is
\* logged (line 90). The loop ends: server.close(...) and the force-exit timeout.
CleanupLogoutSettled(t) ==
    /\ BagIn(t, tasks) /\ t.kind = "cleanup" /\ t.pc = "logout"
    /\ tasks' = (tasks (-) SetToBag({t})) (+)
                SetToBag({Task("cleanup", t.sid, "closing", NULL, FALSE)})
    /\ IF recs[t.by].socket = "live"
       THEN /\ recs' = [recs EXCEPT ![t.by] = OnClose(@, LoggedOut)]
            /\ activeSessions' = [activeSessions EXCEPT ![t.sid] = NULL]
            /\ credsStore' = [credsStore EXCEPT ![t.sid] = "none"]
       ELSE UNCHANGED <<recs, activeSessions, credsStore>>
    /\ UNCHANGED <<now, qrSeq, requests, allowedLog>>
    /\ UNCHANGED mailVars
    /\ UNCHANGED disconnectAnswered

\* the callback of server.close: process.exit(0)
ServerClosed(t) ==
    /\ BagIn(t, tasks) /\ t.kind = "cleanup" /\ t.pc = "closing"
    /\ tasks' = (tasks (-) SetToBag({t})) (+)
                SetToBag({Task("cleanup", t.sid, "exited", NULL, FALSE)})
    /\ UNCHANGED <<now, recs, activeSessions, credsStore, qrSeq, requests, allowedLog>>
    /\ UNCHANGED mailVars
    /\ UNCHANGED disconnectAnswered

\* the 10 s timeout fires: process.exit(1)
ForcedExit(t) ==
    /\ BagIn(t, tasks) /\ t.kind = "cleanup" /\ t.pc = "closing"
    /\ tasks' = (tasks (-) SetToBag({t})) (+)
                SetToBag({Task("cleanup", t.sid, "exited", NULL, TRUE)})
    /\ UNCHANGED <<now, recs, activeSessions, credsStore, qrSeq, requests, allowedLog>>
    /\ UNCHANGED mailVars
    /\ UNCHANGED disconnectAnswered

\* sessions connect, open and close until the process has exited; a shutdown
\* may start at any time
NextShutdown ==
    \/ \E s \in SessionIds : ~Exited /\ ConnectCall(s)
    \/ \E t \in BagToSet(tasks) : ~Exited /\ AuthStateLoaded(t)
    \/ \E t \in BagToSet(tasks) : ~Exited /\ SocketCreated(t)
    \/ \E r \in Recs : ~Exited /\ QrEvent(r)
    \/ \E r \in Recs : ~Exited /\ OpenEvent(r)
    \/ \E r \in Recs, c \in StatusCodes : ~Exited /\ CloseEvent(r, c)
    \/ \E r \in Recs : ~Exited /\ TimerFired(r)
    \/ CleanupStart
    \/ \E t \in BagToSet(tasks) : CleanupLogoutSettled(t)
    \/ \E t \in BagToSet(tasks) : ServerClosed(t)
    \/ \E t \in BagToSet(tasks) : ForcedExit(t)

\* a timeout that exists fires, and a logout on a handle that has closed is
\* rejected; a logout on an open handle may stay pending for ever
FairShutdown ==
    /\ WF_vars(\E t \in BagToSet(tasks) : ForcedExit(t))
    /\ WF_vars(\E t \in CleanupTasks :
                  t.pc = "logout" /\ recs[t.by].socket # "live" /\ CleanupLogoutSettled(t))

SpecShutdown == Init /\ [][NextShutdown]_vars /\ FairShutdown

-----------------------------------------------------------------------------
(* Claims *)

PendingTimers(sessionId) ==
    {r \in Recs : recs[r].sid = sessionId /\ recs[r].reconnectTimer # NULL}

\* C1: for every session id at most one recovery timer is outstanding at any
\* time, under every interleaving of close events, credential events, timer
\* firings, connect calls and disconnect calls.
C1_AtMostOneTimer ==
    \A s \in SessionIds : Cardinality(PendingTimers(s)) <= 1

\* the three recoverable codes the claims name
RecoverableCodes == {515, 428, RestartRequired}

\* the artifact of record r, generated at t, is within its 180 s
WithinTtl(r) == now < recs[r].qrGeneratedAt + QrExpiryMs

\* C2: a recoverable close handled on a record that holds an unexpired
\* artifact not marked consumed schedules no recovery timer, leaves the token
\* and its generation time unchanged, leaves the status qr_pending, and the
\* QR query of the session still returns the token.
C2_ValidArtifactKept ==
    [][\A r \in Recs : \A c \in RecoverableCodes :
          ( /\ CloseEvent(r, c)
            /\ recs[r].qrCode # NULL
            /\ ~recs[r].qrScanned
            /\ WithinTtl(r) )
          => /\ recs'[r].reconnectTimer = NULL
             /\ recs'[r].qrCode = recs[r].qrCode
             /\ recs'[r].qrGeneratedAt = recs[r].qrGeneratedAt
             /\ recs'[r].status = "qr_pending"
             /\ Registered(recs[r].sid) = r =>
                    /\ QrEndpoint(recs[r].sid)'.qrCode = recs[r].qrCode
                    /\ QrEndpoint(recs[r].sid)'.status = "qr_pending"
      ]_vars

\* reached only through the keep-the-QR branch of the close handler: a closed
\* handle, status qr_pending, the token still served by the QR query
C2_Witness ==
    \E r \in Recs :
        /\ recs[r].socket = "closed"
        /\ recs[r].status = "qr_pending"
        /\ recs[r].qrCode # NULL /\ ~recs[r].qrScanned
        /\ recs[r].reconnectTimer = NULL
        /\ Registered(recs[r].sid) = r
        /\ QrEndpoint(recs[r].sid).qrCode = recs[r].qrCode

\* C4: immediately after a close with the logout-class code is handled, the
\* session id is absent from the registry, its persisted credentials no longer
\* exist, the record's recovery timer is cleared, and the handler has
\* scheduled no recovery (no timer is set that was not set, no attempt starts).
C4_LogoutRemoves ==
    [][\A r \in Recs :
          CloseEvent(r, LoggedOut)
          => /\ Registered(recs[r].sid)' = NULL
             /\ GetSessionStatus(recs[r].sid)'.exists = FALSE
             /\ credsStore'[recs[r].sid] = "none"
             /\ recs'[r].reconnectTimer = NULL
             /\ \A q \in Recs : recs[q].reconnectTimer = NULL
                                => recs'[q].reconnectTimer = NULL
             /\ tasks' = tasks
      ]_vars

\* a record that was created from stored credentials, was registered, and
\* whose logout close has been handled
C4_Witness ==
    \E r \in Recs :
        /\ recs[r].socket = "closed"
        /\ recs[r].status = "disconnected"
        /\ recs[r].withCreds
        /\ recs[r].phoneNumber # NULL
        /\ Registered(recs[r].sid) = NULL
        /\ credsStore[recs[r].sid] = "none"

\* the three expiry decisions of the code on the artifact of record r, each
\* compared with `expired`: the QR query, the re-entrant connect call, and
\* the recoverable branch of the close handler
ExpiryDecisionsAre(r, expired) ==
    /\ Registered(recs[r].sid) = r
       => /\ QrEndpoint(recs[r].sid).status = "qr_expired" <=> expired
          /\ QrEndpoint(recs[r].sid).qrCode = recs[r].qrCode <=> ~expired
    /\ (Registered(recs[r].sid) = r /\ ~recs[r].isConnected /\ ~recs[r].qrScanned)
       => (ReusesExisting(recs[r].sid, recs) <=> ~expired)
    /\ ~recs[r].qrScanned
       => /\ OnClose(recs[r], StreamErrored).status = "reconnecting" <=> expired
          /\ OnClose(recs[r], StreamErrored).status = "qr_pending" <=> ~expired

HoldsArtifact(r) == recs[r].qrCode # NULL /\ recs[r].qrGeneratedAt # NULL

\* C5 as stated: an artifact generated at t is treated as expired exactly
\* when now >= t + 180 s, by the QR query, the re-entrant connect and the
\* close handler, the instant now = t + 180 s included.
C5_ExpiredFromTtl ==
    \A r \in Recs :
        HoldsArtifact(r)
        => ExpiryDecisionsAre(r, now >= recs[r].qrGeneratedAt + QrExpiryMs)

\* C5 amended: an artifact generated at t is treated as expired exactly when
\* now > t + 180 s; at the instant now = t + 180 s it is still valid.
C5_ExpiredAfterTtl ==
    \A r \in Recs :
        HoldsArtifact(r)
        => ExpiryDecisionsAre(r, now > recs[r].qrGeneratedAt + QrExpiryMs)

\* the boundary instant: the artifact is exactly 180 s old and still served
C5_Witness ==
    \E r \in Recs :
        /\ HoldsArtifact(r)
        /\ now = recs[r].qrGeneratedAt + QrExpiryMs
        /\ Registered(recs[r].sid) = r
        /\ QrEndpoint(recs[r].sid).qrCode = recs[r].qrCode

\* C6 as stated: once the credential event has marked the artifact of a
\* record consumed, no later event on that record sets the flag back to false.
C6_ConsumedNeverReset ==
    [][\A r \in Recs : recs[r].qrScanned => recs'[r].qrScanned]_vars

\* C6 amended: the consumed flag goes back to false only in the handler of a
\* recoverable close, in the same step that clears the token, sets the status
\* reconnecting and leaves a recovery timer pending; no QR, open,
\* credential-update, logout close or other close resets it.
C6_ConsumedResetOnlyByRecoverableClose ==
    [][\A r \in Recs :
          (recs[r].qrScanned /\ ~recs'[r].qrScanned)
          => /\ \E c \in RecoverableCodes : CloseEvent(r, c)
             /\ recs'[r].qrCode = NULL
             /\ recs'[r].status = "reconnecting"
             /\ recs'[r].reconnectTimer # NULL
      ]_vars

\* a scanned record whose recoverable close has been handled
C6_Witness ==
    \E r \in Recs :
        /\ recs[r].socket = "closed"
        /\ recs[r].status = "reconnecting"
        /\ recs[r].reconnectTimer = AfterScanDelayMs
        /\ recs[r].qrCode = NULL
        /\ ~recs[r].qrScanned
        /\ credsStore[recs[r].sid] = "creds"

\* C7: once the credential event has been handled for a registered record
\* that held an artifact, the QR query of the session no longer returns that
\* artifact's token, even before any close or open event arrives.
C7_ConsumedTokenHidden ==
    [][\A r \in Recs :
          ( /\ CredsSaved(r)
            /\ recs[r].qrCode # NULL
            /\ credsStore[recs[r].sid] # "none"
            /\ Registered(recs[r].sid) = r )
          => QrEndpoint(recs[r].sid)'.qrCode # recs[r].qrCode
      ]_vars

\* the scanned branch of the close handler has run on record r and its
\* recovery timer is still pending
ArmedAfterScan(r) ==
    /\ recs[r].socket = "closed"
    /\ recs[r].status = "reconnecting"
    /\ recs[r].reconnectTimer = AfterScanDelayMs
    /\ recs[r].qrCode = NULL

SessionConnected(sessionId) ==
    /\ Registered(sessionId) # NULL
    /\ recs[Registered(sessionId)].status = "connected"

\* C3: after a recoverable close handled on a consumed artifact, the session
\* reaches connected through the recovery alone. Its first step, which a
\* finite run decides: when the timer armed by that close fires, the session
\* is connected already or a connection attempt (which reuses the persisted
\* credentials) is started for it.
C3_RecoveryAttempted ==
    [][\A r \in Recs :
          (ArmedAfterScan(r) /\ TimerFired(r))
          => \/ SessionConnected(recs[r].sid)'
             \/ \E t \in BagToSet(tasks') : t.kind = "init" /\ t.by = r
      ]_vars

AllowedInWindow(k, t) ==
    {i \in DOMAIN allowedLog[k] : allowedLog[k][i] <= t /\ t - allowedLog[k][i] < timeWindowMs}

\* C8: for every limiter key, a check at the current time is allowed exactly
\* when fewer than maxRequests previously allowed checks lie in the trailing
\* window (now - timestamp < window); and no window of that length, ending at
\* any time so far, contains more than maxRequests allowed checks.
C8_SlidingWindow ==
    \A k \in Identifiers :
        /\ CheckLimit(requests[k], now).allowed
           <=> Cardinality(AllowedInWindow(k, now)) < maxRequests
        /\ \A i \in DOMAIN allowedLog[k] :
               Cardinality(AllowedInWindow(k, allowedLog[k][i])) <= maxRequests

\* the window has slid: more than maxRequests checks were allowed in all, the
\* oldest have left the window, and the window is full again
C8_Witness ==
    \E k \in Identifiers :
        /\ Len(allowedLog[k]) > maxRequests
        /\ ~CheckLimit(requests[k], now).allowed
        /\ Len(requests[k]) = maxRequests

\* the properties of the computed wait that both readings of C9 share: it is
\* window - (now - oldest remaining timestamp), greater than 0, at most the
\* window, and a check once it has elapsed is allowed
WaitIsSound(k) ==
    LET res == CheckLimit(requests[k], now)
        valid == ValidRequests(requests[k], now)
    IN  /\ res.waitTime = timeWindowMs - (now - Min(valid))
        /\ res.waitTime > 0
        /\ res.waitTime <= timeWindowMs
        /\ CheckLimit(requests[k], now + res.waitTime).allowed

\* C9 as stated: whenever checkLimit rejects, the reported wait time equals
\* window - (now - oldest remaining timestamp), is greater than 0 and at most
\* window, and a check issued once that wait has elapsed is allowed.
C9_ReportedWaitExact ==
    \A k \in Identifiers :
        ~CheckLimit(requests[k], now).allowed
        => /\ WaitIsSound(k)
           /\ CheckLimit(requests[k], now).retryAfterS * 1000
                  = timeWindowMs - (now - Min(ValidRequests(requests[k], now)))

\* C9 amended: whenever checkLimit rejects, the computed wait equals
\* window - (now - oldest remaining timestamp), is greater than 0 and at most
\* window, and a check once it has elapsed is allowed; the reported value is
\* that wait in whole seconds, rounded up: never less than the wait, less than
\* one second more, and a check after the reported wait is allowed as well.
C9_ReportedWaitRoundedUp ==
    \A k \in Identifiers :
        ~CheckLimit(requests[k], now).allowed
        => LET res == CheckLimit(requests[k], now) IN
           /\ WaitIsSound(k)
           /\ res.retryAfterS * 1000 >= res.waitTime
           /\ res.retryAfterS * 1000 < res.waitTime + 1000
           /\ CheckLimit(requests[k], now + res.retryAfterS * 1000).allowed

\* a rejected check whose wait is not a whole number of seconds
C9_Witness ==
    \E k \in Identifiers :
        /\ ~CheckLimit(requests[k], now).allowed
        /\ CheckLimit(requests[k], now).waitTime % 1000 # 0

\* C10: a send for a registered session whose isConnected flag is false is
\* answered with the not-connected error and leaves the limiter's timestamps
\* unchanged.
C10_RejectedSendKeepsSlot ==
    [][\A s \in SessionIds :
          ( /\ SendRoute(s)
            /\ Registered(s) # NULL
            /\ ~recs[Registered(s)].isConnected )
          => /\ SendOutcome(s) = "not_connected"
             /\ requests' = requests
      ]_vars

C12_TimerImpliesReconnecting ==
    \A r \in Recs : recs[r].reconnectTimer # NULL => recs[r].status = "reconnecting"

\* C13: whenever a record is removed from the registry or superseded by a new
\* connection attempt, its recovery timer has been cancelled first: a record
\* whose timer is pending (and so can still fire) is the registered record of
\* its session id.
C13_RemovedHasNoTimer ==
    \A r \in Recs :
        recs[r].reconnectTimer # NULL => Registered(recs[r].sid) = r

\* the handles of a session id that were created and are neither ended nor closed
LiveHandles(sessionId) ==
    {r \in Recs : recs[r].sid = sessionId /\ recs[r].socket = "live"}

\* C14: for every session id, at most one connection handle that has been
\* created and not yet ended or closed exists at any instant, under any
\* interleaving of connect calls and timer-fired recoveries for that id.
C14_OneLiveHandle ==
    \A s \in SessionIds : Cardinality(LiveHandles(s)) <= 1

\* the step handles a logout-class close of a handle of the session id, or is
\* part of an explicit disconnect of the id
LogoutOrDisconnectStep(sessionId) ==
    \/ \E r \in Recs : recs[r].sid = sessionId /\ CloseEvent(r, LoggedOut)
    \/ DisconnectCall(sessionId)
    \/ \E t \in BagToSet(tasks) : t.sid = sessionId /\ DisconnectDone(t)

\* C15: once a session id is present in the registry it stays present until a
\* logout-class close is handled or an explicit disconnect is processed: no
\* other step (recovery attempt, re-entrant connect call, non-logout close)
\* makes a status query report the session as absent.
C15_StaysRegistered ==
    [][\A s \in SessionIds :
          (GetSessionStatus(s).exists /\ ~GetSessionStatus(s)'.exists)
          => LogoutOrDisconnectStep(s)
      ]_vars

\* the registered record of the id is connected, or holds an artifact that is
\* within its 180 s and not marked consumed
ReuseCase(sessionId) ==
    LET existing == Registered(sessionId) IN
    /\ existing # NULL
    /\ \/ recs[existing].isConnected
       \/ /\ recs[existing].qrCode # NULL
          /\ ~recs[existing].qrScanned
          /\ WithinTtl(existing)

\* C16: a connect call for a session whose registered record is connected, or
\* holds an unexpired artifact not marked consumed, changes nothing: no handle
\* is ended or created, no registry entry replaced, no credentials touched,
\* no procedure started; so repeating the call has the effect of one call.
C16_ReentrantConnectIsNoOp ==
    [][\A s \in SessionIds : (ReuseCase(s) /\ ConnectCall(s)) => UNCHANGED vars]_vars

\* a connect call can be made on a registered, open handle showing an
\* unscanned artifact within its 180 s
C16_Witness ==
    \E s \in SessionIds :
        /\ ReuseCase(s)
        /\ ~recs[Registered(s)].isConnected
        /\ recs[Registered(s)].socket = "live"
        /\ ENABLED ConnectCall(s)

\* C17: the artifact token stored on a record is overwritten by a new token
\* only when the previous artifact had expired or had been consumed; a QR
\* event arriving while the record holds an unexpired, unconsumed artifact
\* does not replace it.
C17_TokenOverwrittenOnlyWhenStale ==
    [][\A r \in Recs :
          ( /\ recs[r].qrCode # NULL
            /\ recs'[r].qrCode # NULL
            /\ recs'[r].qrCode # recs[r].qrCode )
          => (recs[r].qrScanned \/ ~WithinTtl(r))
      ]_vars

\* the registry entry of the id holds an artifact within its 180 s that is
\* not marked consumed
ProtectedArtifact(sessionId) ==
    LET existing == Registered(sessionId) IN
    /\ existing # NULL
    /\ recs[existing].qrCode # NULL
    /\ ~recs[existing].qrScanned
    /\ WithinTtl(existing)

\* C18: while the registry entry of a session holds an artifact that is
\* neither expired nor consumed, no connect call, timer-fired recovery or
\* in-flight connect procedure replaces or removes that entry or ends its
\* handle (only a logout-class close or an explicit disconnect may).
C18_ProtectedEntryNotReplaced ==
    [][\A s \in SessionIds :
          ProtectedArtifact(s)
          => \/ /\ Registered(s)' = Registered(s)
                /\ recs'[Registered(s)].socket # "ended"
             \/ LogoutOrDisconnectStep(s)
      ]_vars

\* the step in which DELETE /disconnect/:sessionId sends its answer, and the
\* record the request found in the registry (NULL when it found none)
DisconnectAnswered(sessionId, found) ==
    \/ /\ found = Registered(sessionId)
       /\ found = NULL \/ ~recs[found].isConnected
       /\ DisconnectCall(sessionId)
    \/ /\ found # NULL
       /\ \E t \in BagToSet(tasks) :
              t.kind = "logout" /\ t.sid = sessionId /\ t.by = found /\ DisconnectDone(t)

\* C19: an explicit disconnect request always answers success (both answers
\* the route reaches are the 200 one, an error of logout() or end() is caught);
\* when it answers, the session id is absent from the registry and no recovery
\* timer of the record it found is pending.
C19_DisconnectLeavesNothing ==
    [][\A s \in SessionIds, found \in {NULL} \cup Recs :
          DisconnectAnswered(s, found)
          => /\ Registered(s)' = NULL
             /\ found # NULL => recs'[found].reconnectTimer = NULL
      ]_vars

\* the step removes the persisted credentials (creds.json) of the id
CredsDeleted(sessionId) ==
    credsStore[sessionId] = "creds" /\ credsStore'[sessionId] # "creds"

\* the step runs the logged-out branch of the close handler on a handle of the id
LogoutCloseHandled(sessionId) ==
    \E r \in Recs :
        /\ recs[r].sid = sessionId
        /\ recs[r].socket = "live"
        /\ recs'[r].socket = "closed"
        /\ recs'[r].status = "disconnected"

\* C20 as stated: persisted credentials are deleted only when a logout-class
\* close is handled; no connect call, timer-fired recovery, non-logout close
\* or explicit disconnect request deletes them.
C20_DeletedOnlyByReportedLogout ==
    [][\A s \in SessionIds :
          CredsDeleted(s)
          => /\ LogoutCloseHandled(s)
             /\ ~\E t \in BagToSet(tasks) : t.sid = s /\ DisconnectDone(t)
      ]_vars

\* C20 amended: persisted credentials are deleted only in a step that handles
\* a logout-class close, which includes the close that an explicit disconnect
\* of a connected session produces through logout(); no connect call,
\* timer-fired recovery, non-logout close or disconnect of an absent or
\* not-connected session deletes them.
C20_DeletedOnlyByLogoutClose ==
    [][\A s \in SessionIds : CredsDeleted(s) => LogoutCloseHandled(s)]_vars

\* credentials that outlived a recoverable close of a connected handle were
\* removed when a later handle of the id was logged out
C20_Witness ==
    \E r1, r2 \in Recs :
        /\ r1 < r2
        /\ recs[r1].sid = recs[r2].sid
        /\ recs[r1].socket = "closed" /\ recs[r1].status = "reconnecting"
        /\ recs[r2].withCreds
        /\ recs[r2].status = "disconnected"
        /\ credsStore[recs[r2].sid] = "none"

\* record r is the registered record of its id and holds an unscanned
\* artifact older than 180 s, while a further QR string, a further procedure
\* and a further record are within the bounds of the model
ExpiredUnscanned(r) ==
    /\ r \in Recs
    /\ Registered(recs[r].sid) = r
    /\ recs[r].qrCode # NULL
    /\ ~recs[r].qrScanned
    /\ now - recs[r].qrGeneratedAt > QrExpiryMs
    /\ BagCardinality(tasks) < MaxTasks
    /\ Len(recs) + NumInitTasks < MaxRecords

\* C21: if a session's artifact expires without having been scanned, a new
\* artifact is eventually generated for that session without any client call
\* (unless the session gets connected or the artifact is scanned after all).
C21_ExpiredArtifactReplaced ==
    \A n \in 0..(MaxQr - 1) : \A r \in 1..MaxRecords :
        (ExpiredUnscanned(r) /\ qrSeq = n)
        ~> \/ qrSeq > n
           \/ \E s \in SessionIds : SessionConnected(s)
           \/ r \in Recs /\ recs[r].qrScanned

\* C22: once the shutdown routine starts, the process eventually exits no
\* matter how the session logouts behave, also when the logout of some
\* session never completes.
C22_ShutdownExits == (CleanupTasks # {}) ~> Exited

\* C23: for a single session, no close, open or QR event of the session is
\* processed between the start and the end of a credential-update handler of
\* that session.
C23_CredsHandlerNotInterleaved ==
    [][\A r \in Recs :
          recs[r].saving > 0
          => ~\E r2 \in Recs :
                 /\ recs[r2].sid = recs[r].sid
                 /\ \/ QrEvent(r2)
                    \/ OpenEvent(r2)
                    \/ \E c \in StatusCodes : CloseEvent(r2, c)
      ]_vars

\* C24: after an open event is handled on a record, that record has status
\* connected, isConnected true, no pending recovery timer, no pairing
\* artifact (token cleared and no consumed mark left behind), and the account
\* identifier taken from the handle.
C24_OpenLeavesCleanRecord ==
    [][\A r \in Recs :
          OpenEvent(r)
          => /\ recs'[r].status = "connected"
             /\ recs'[r].isConnected
             /\ recs'[r].reconnectTimer = NULL
             /\ recs'[r].qrCode = NULL
             /\ ~recs'[r].qrScanned
             /\ recs'[r].phoneNumber # NULL
      ]_vars

\* C25: when a recoverable close is handled on a record with no artifact
\* token present, in particular on a record that had reached connected, the
\* status becomes reconnecting and the recovery is scheduled with the 3-second
\* delay, never the 2-second one.
C25_NoArtifactCloseWaits3s ==
    [][\A r \in Recs, c \in RecoverableCodes :
          (recs[r].qrCode = NULL /\ CloseEvent(r, c))
          => /\ recs'[r].status = "reconnecting"
             /\ recs'[r].reconnectTimer = ReconnectDelayMs
      ]_vars

\* record r holds an unscanned artifact older than 180 s
StaleUnscanned(r) ==
    /\ recs[r].qrCode # NULL
    /\ ~recs[r].qrScanned
    /\ recs[r].qrGeneratedAt # NULL
    /\ now - recs[r].qrGeneratedAt > QrExpiryMs

\* C26: when a recoverable close is handled on a record whose unconsumed
\* artifact has expired, the status becomes reconnecting (not qr_pending) and
\* a recovery is scheduled with the 2-second delay.
C26_StaleArtifactCloseReconnects ==
    [][\A r \in Recs, c \in RecoverableCodes :
          (StaleUnscanned(r) /\ CloseEvent(r, c))
          => /\ recs'[r].status = "reconnecting"
             /\ recs'[r].reconnectTimer = ExpiredQrDelayMs
      ]_vars

\* a closed record still holding its stale unscanned token, with the 2-second
\* recovery pending
C26_Witness ==
    \E r \in Recs :
        /\ StaleUnscanned(r)
        /\ recs[r].socket = "closed"
        /\ recs[r].status = "reconnecting"
        /\ recs[r].reconnectTimer = ExpiredQrDelayMs

\* the codes that are neither logout-class nor recoverable: 403, 404, 408,
\* 500 and a missing code
OtherCodes == {Forbidden, NotFound, TimedOut, BadSession, NoStatusCode}

\* C27: when a close event with a code that is neither logout-class nor
\* recoverable is handled, the status becomes failed, no recovery timer is
\* scheduled by that event, the registry is left as it was, and an artifact on
\* the record is left unchanged and is served by the QR query as before.
C27_OtherCloseFailsAndKeepsArtifact ==
    [][\A r \in Recs, c \in OtherCodes :
          CloseEvent(r, c)
          => /\ recs'[r].status = "failed"
             /\ recs'[r].reconnectTimer = NULL
             /\ activeSessions' = activeSessions
             /\ recs'[r].qrCode = recs[r].qrCode
             /\ recs'[r].qrGeneratedAt = recs[r].qrGeneratedAt
             /\ recs'[r].qrScanned = recs[r].qrScanned
             /\ QrEndpoint(recs[r].sid)'.qrCode = QrEndpoint(recs[r].sid).qrCode
      ]_vars

\* a registered record that failed on such a close while holding a token
\* within its 180 s, which the QR query still returns
C27_Witness ==
    \E r \in Recs :
        /\ Registered(recs[r].sid) = r
        /\ recs[r].socket = "closed"
        /\ recs[r].status = "failed"
        /\ recs[r].reconnectTimer = NULL
        /\ recs[r].qrCode # NULL
        /\ WithinTtl(r)
        /\ QrEndpoint(recs[r].sid).qrCode = recs[r].qrCode

\* what the credential handler of record r does to the record when it resumes
\* after a write that was made
CredsHandlerEffect(r) ==
    /\ recs[r].qrCode # NULL
       => /\ recs'[r].qrScanned
          /\ recs'[r].status = "authenticating"
    /\ recs[r].qrCode = NULL
       => /\ recs'[r].status = recs[r].status
          /\ recs'[r].isConnected = recs[r].isConnected
          /\ recs'[r].qrScanned = recs[r].qrScanned
          /\ recs'[r].reconnectTimer = recs[r].reconnectTimer

DocumentedEdges(status) ==
    CASE status = "connecting"     -> {"qr_pending", "connected", "failed"}
      [] status = "qr_pending"     -> {"authenticating", "connected", "qr_pending",
                                       "failed", "disconnected"}
      [] status = "authenticating" -> {"connected", "reconnecting", "failed"}
      [] status = "connected"      -> {"reconnecting", "disconnected", "failed"}

\* the edges the handlers take in addition: a close before any QR or open
\* (recoverable or logout), a recoverable close on an expired QR, a logout
\* close or a new QR string after a scan
HandlerEdges(status) ==
    CASE status = "connecting"     -> DocumentedEdges(status) \cup {"reconnecting", "disconnected"}
      [] status = "qr_pending"     -> DocumentedEdges(status) \cup {"reconnecting"}
      [] status = "authenticating" -> DocumentedEdges(status) \cup {"disconnected", "qr_pending"}
      [] status = "connected"      -> DocumentedEdges(status)

DocumentedStates == {"connecting", "qr_pending", "authenticating", "connected"}

\* C29 as stated: every status change of a session record out of connecting,
\* qr_pending, authenticating or connected follows an edge of the documented
\* state machine.
C29_DocumentedEdgesOnly ==
    [][\A r \in Recs :
          (recs[r].status \in DocumentedStates /\ recs'[r].status # recs[r].status)
          => recs'[r].status \in DocumentedEdges(recs[r].status)
      ]_vars

\* C29 amended: every status change follows a documented edge or one of
\* connecting -> reconnecting, connecting -> disconnected,
\* qr_pending -> reconnecting, authenticating -> disconnected,
\* authenticating -> qr_pending; connected has the documented edges only.
C29_HandlerEdgesOnly ==
    [][\A r \in Recs :
          (recs[r].status \in DocumentedStates /\ recs'[r].status # recs[r].status)
          => recs'[r].status \in HandlerEdges(recs[r].status)
      ]_vars

\* a handle created with stored credentials closed with a recoverable code
\* before it opened: connecting -> reconnecting
C29_Witness ==
    \E r \in Recs :
        /\ recs[r].withCreds
        /\ recs[r].phoneNumber = NULL
        /\ recs[r].qrCode = NULL
        /\ recs[r].socket = "closed"
        /\ recs[r].status = "reconnecting"

\* the order of precedence the claim gives to the outcomes of a send
PrecedenceOutcome(sessionId) ==
    IF Registered(sessionId) = NULL THEN "session_not_found"
    ELSE IF ~recs[Registered(sessionId)].isConnected THEN "not_connected"
    ELSE IF ~CheckLimit(requests[sessionId], now).allowed THEN "rate_limited"
    ELSE "forwarded"

\* C30: the outcome of a valid send request is decided in this order: session
\* absent gives session-not-found; otherwise isConnected false gives
\* not-connected; otherwise a limiter rejection gives rate-limit; otherwise the
\* message is forwarded. A send for an absent or disconnected session never
\* answers with the rate-limit error.
C30_SendPrecedence ==
    \A s \in SessionIds : SendOutcome(s) = PrecedenceOutcome(s)

\* what a connect call for the id does to records `base`: nothing when the
\* registered record is connected or holds an unscanned artifact not older
\* than 180 s; otherwise the registered record's handle is ended, the entry
\* removed, persisted credentials kept, and one more procedure is started
\* that will create the new handle
BehavesLikeConnect(sessionId, base) ==
    LET existing == Registered(sessionId) IN
    IF /\ existing # NULL
       /\ \/ base[existing].isConnected
          \/ /\ base[existing].qrCode # NULL
             /\ ~base[existing].qrScanned
             /\ now - base[existing].qrGeneratedAt <= QrExpiryMs
    THEN /\ recs' = base
         /\ UNCHANGED <<activeSessions, credsStore, tasks>>
    ELSE /\ Registered(sessionId)' = NULL
         /\ recs' = IF existing # NULL /\ base[existing].socket = "live"
                    THEN [base EXCEPT ![existing].socket = "ended"]
                    ELSE base
         /\ (credsStore'[sessionId] = "creds") <=> (credsStore[sessionId] = "creds")
         /\ BagCardinality(tasks') = BagCardinality(tasks) + 1
         /\ \E t \in BagToSet(tasks') :
                /\ t.kind = "init" /\ t.sid = sessionId /\ t.pc = "auth"
                /\ tasks' = tasks (+) SetToBag({t})

\* C31: a recovery timer that fires clears itself and then behaves exactly
\* like a connect call issued at that instant for the same session id; both
\* create a new handle reusing persisted credentials unless the registered
\* record is connected or holds an unexpired unconsumed artifact, in which
\* case nothing is created or torn down.
C31_TimerBehavesLikeConnect ==
    [][/\ \A r \in Recs :
             TimerFired(r)
             => /\ recs'[r].reconnectTimer = NULL
                /\ BehavesLikeConnect(recs[r].sid, [recs EXCEPT ![r].reconnectTimer = NULL])
       /\ \A s \in SessionIds :
             (ConnectCall(s) /\ vars' # vars) => BehavesLikeConnect(s, recs)
      ]_vars

\* a timer has fired and started a connection procedure that is suspended
C31_Witness ==
    \E t \in BagToSet(tasks) :
        /\ t.kind = "init"
        /\ t.by # NULL
        /\ recs[t.by].reconnectTimer = NULL

\* C32: an email send request reaches the mail transport only after it
\* passed validation and the email limiter allowed it for the recipient
\* address; a request answered 400 leaves the limiter state unchanged, a
\* request answered 429 never invokes the transport, and the limiter entry
\* that a request changes is that of its recipient, whatever cc, bcc and
\* sending account it carries.
C32_EmailGate ==
    [][/\ (mailCalls' # mailCalls /\ lastMail'.route = "send")
            => LET m == lastMail' IN
               /\ ~Missing(m.to) /\ IsValidEmail(m.to)
               /\ ~Missing(m.subject)
               /\ ~(Missing(m.text) /\ Missing(m.html))
               /\ CheckLimit(emailRequests[m.to], now).allowed
               /\ emailRequests' =
                      [emailRequests EXCEPT ![m.to] = CheckLimit(@, now).requests]
       /\ (emailReply' = 400 /\ now' = now)
            => UNCHANGED <<emailRequests, mailCalls, lastMail>>
       /\ (emailReply' = 429 /\ now' = now)
            => UNCHANGED <<mailCalls, lastMail>>
       /\ emailRequests' # emailRequests
            => \E k \in ToValues :
                  /\ IsValidEmail(k)
                  /\ CheckLimit(emailRequests[k], now).allowed
                  /\ emailRequests' =
                         [emailRequests EXCEPT ![k] = CheckLimit(@, now).requests]
      ]_vars

\* a send request with a cc was handed to the transport and a later
\* one for the same recipient is answered 429
C32_Witness ==
    /\ emailReply = 429
    /\ mailCalls >= 1
    /\ lastMail.route = "send"
    /\ lastMail.cc # NoString
    /\ Len(emailRequests[lastMail.to]) = maxRequests

\* C33: rate-limit checks on different keys are independent: a check on one
\* key, allowed or rejected, leaves the stored timestamps of every other key
\* unchanged, so at every instant the outcome of a check on a key is the one
\* determined by the allowed checks of that key alone.
C33_KeysIndependent ==
    /\ [][\A a \in Identifiers :
             LimiterCheck(a)
             => \A b \in Identifiers \ {a} : requests'[b] = requests[b]]_vars
    /\ [](\A b \in Identifiers :
             /\ CheckLimit(requests[b], now).allowed
                  = CheckLimit(allowedLog[b], now).allowed
             /\ CheckLimit(requests[b], now).waitTime
                  = CheckLimit(allowedLog[b], now).waitTime)

\* both keys have been checked, one is at its limit and the other is not
C33_Witness ==
    \E a, b \in Identifiers :
        /\ a # b
        /\ ~CheckLimit(requests[a], now).allowed
        /\ CheckLimit(requests[b], now).allowed
        /\ requests[b] # <<>>

\* the key is at its limit: a check made now is rejected
Rejecting(k) == ~CheckLimit(requests[k], now).allowed

\* the instant from which a key at its limit is allowed again
AllowedAgainAt(k) == now + CheckLimit(requests[k], now).waitTime

\* C34: a rejected checkLimit call records nothing: it leaves the stored
\* timestamps of its key unchanged, so as long as the key stays at its limit
\* the instant at which it is allowed again never moves, however many
\* rejected checks are made.
C34_RejectedRecordsNothing ==
    [][\A k \in Identifiers :
          /\ (Rejecting(k) /\ LimiterCheck(k)) => requests' = requests
          /\ (Rejecting(k) /\ Rejecting(k)') => AllowedAgainAt(k)' = AllowedAgainAt(k)
      ]_vars

\* a key at its limit some time after its latest stored timestamp: a check
\* made now is rejected and the key is allowed again later
C34_Witness ==
    \E k \in Identifiers :
        /\ Rejecting(k)
        /\ now > requests[k][Len(requests[k])]
        /\ AllowedAgainAt(k) > now

\* record r is superseded: another record is registered under its session id
Superseded(r) ==
    /\ r \in Recs
    /\ Registered(recs[r].sid) # NULL
    /\ Registered(recs[r].sid) # r

\* one of the handlers attached to the handle of record r runs
HandleEvent(r) ==
    \/ QrEvent(r)
    \/ OpenEvent(r)
    \/ \E c \in StatusCodes : CloseEvent(r, c)
    \/ CredsUpdateEvent(r)
    \/ CredsSaved(r)

\* C35: an event delivered on a connection handle that has been superseded
\* never changes the registered record, never removes the session id from
\* the registry, never deletes the session's credentials and never schedules
\* a recovery for that id.
C35_SupersededHandleIsInert ==
    [][\A r \in Recs :
          (Superseded(r) /\ HandleEvent(r))
          => LET sessionId == recs[r].sid
                 registered == Registered(sessionId)
             IN  /\ recs'[registered] = recs[registered]
                 /\ activeSessions'[sessionId] = registered
                 /\ credsStore'[sessionId] = "none" => credsStore[sessionId] = "none"
                 /\ recs'[r].reconnectTimer # NULL => recs[r].reconnectTimer # NULL
      ]_vars

\* a recovery of the session of record r is scheduled or has started
RecoveryUnderWay(r) ==
    \/ recs[r].reconnectTimer # NULL
    \/ \E t \in BagToSet(tasks) : t.kind = "init" /\ t.sid = recs[r].sid
    \/ \E later \in Recs : later > r /\ recs[later].sid = recs[r].sid

\* C36: when a session holding a valid artifact receives a credential
\* persistence event and a recoverable close, whatever the order in which
\* the two handlers run (the close handler possibly running while the
\* credential handler is suspended on the write), a recovery ends up
\* scheduled: once both handlers have finished the record is not left with
\* status authenticating, a closed handle and no recovery.
C36_ScanAndCloseRecover ==
    [][\A r \in Recs :
          \* the credential handler has finished before the close is handled
          /\ (recs[r].qrScanned /\ \E c \in RecoverableCodes : CloseEvent(r, c))
                => RecoveryUnderWay(r)'
          \* the close was handled while the credential handler was suspended:
          \* a closed handle in qr_pending is what the recoverable close of a
          \* valid unscanned artifact leaves
          /\ (/\ recs[r].socket = "closed"
              /\ recs[r].status = "qr_pending"
              /\ CredsSaved(r)
              /\ recs'[r].status = "authenticating")
                => RecoveryUnderWay(r)'
      ]_vars

\* C37: after an explicit disconnect request has answered, the session id
\* stays absent from the registry until the next connect call for that id:
\* neither a recovery timer scheduled before the disconnect nor a connect
\* procedure that was suspended at an await when the disconnect ran
\* registers a record for it afterwards.
C37_AbsentAfterDisconnect ==
    \A s \in SessionIds : disconnectAnswered[s] => Registered(s) = NULL

\* C38: the status query and the QR query agree at every instant: the status
\* query reports hasQRCode true for a session exactly when a QR query for
\* the same session at the same instant returns a non-null token.
C38_QueriesAgree ==
    \A s \in SessionIds :
        GetSessionStatus(s).hasQRCode <=> (QrEndpoint(s).qrCode # NULL)

====
